---- MODULE Spec2Model ----
(***************************************************************************)
(* Model of the collaborative-issues client (src/src/main.rs).             *)
(*                                                                         *)
(* main.rs is the whole repository: the commands create, get, add-comment  *)
(* and the function evaluate_history are translated from it.  The CRDT     *)
(* document (automerge Backend / Frontend / Change) and the object store   *)
(* (librad collaborative_objects: History, traverse, create, retrieve,     *)
(* update) are used by main.rs but are not part of src/; they are modelled *)
(* from sections 3, 4 and 6 of the specification and are marked so in the  *)
(* comments below ("modelled from the specification").                     *)
(*                                                                         *)
(* Spec models one object.  Every peer has its own replica of the object's *)
(* history (the heads it knows); replication (Sync) and entries written by *)
(* other clients (Foreign) are the environment.                            *)
(*                                                                         *)
(* SpecStore models one peer's store of several objects and all six        *)
(* commands, each on the object its issue_id names.  SpecWalk models one   *)
(* peer's store holding an entry DAG of any shape, walked by get and       *)
(* changegraph.                                                            *)
(***************************************************************************)
EXTENDS Integers, Sequences, FiniteSets, TLC

\* ------------------------------------------------------------------ bounds
\* The largest number of entries the object's history may hold.
MaxEntries == 3
\* The largest number of those entries that other clients may have written.
MaxForeign == 1
\* SpecStore: the largest number of entries the store may hold, and of objects.
StoreEntries == 4
StoreObjects == 3
\* SpecWalk: the largest number of entries of the DAG.
WalkEntries == 3

\* ------------------------------------------------------------- vocabulary
\* The peers that run this program; a peer's number is also its identity
\* (local_id.urn()) and the actor id of the changes it authors.
Peers == {1, 2}
\* The actor id of another client writing entries to the same object.
ForeignActor == 1 + Cardinality(Peers)
\* Urn(p): the string form of an identity, as written into the document.
Urns == <<"rad:git:alice", "rad:git:bob", "rad:git:carol">>
Urn(p) == Urns[p]
\* Command arguments.
Titles == {"Bug"}
Descriptions == {"desc"}
\* The comment texts: the text typed for the add-comment run that finds k
\* entries in the store is the k-th, so no two comments carry the same text.
Texts == <<"looks good", "ship it", "needs work", "fixed", "thanks", "reopen", "done">>

None == "none"
HEAD == <<0, 0>>           \* the list position before the first element
MissingId == <<9, 9>>      \* the id of a change no history contains
BogusObj == <<8, 8>>       \* the id of a list object no change creates

\* ------------------------------------------------------------------ state
VARIABLES
  entries,   \* the object's entries, in commit order; an entry's id is its index
  heads,     \* heads[p]: the tips of the history peer p's storage holds
  last       \* what the last command did: its outcome, output, diagnostics

vars == <<entries, heads, last>>

\* --------------------------------------------------------- small utilities
Max(S) == CHOOSE x \in S : \A y \in S : y <= x

Range(s) == {s[i] : i \in DOMAIN s}

RECURSIVE Flatten(_)
\* Concatenation of a sequence of sequences.
Flatten(ss) == IF ss = <<>> THEN <<>> ELSE Head(ss) \o Flatten(Tail(ss))

\* ----------------------------------------------------------------- Change
\* A Change: the actor and per-actor sequence number that identify it, the
\* ids of the changes it depends on, and its one operation.  (Modelled from
\* the specification, section 3.)
ChangeId(c) == <<c.actor, c.seq>>

\* The operation of initial_doc: set the whole root value, creating the
\* (empty) comments list object.  The list object is named by the change.
InitOp(author, title, description) ==
  [kind |-> "init", obj |-> HEAD, pred |-> HEAD, author |-> author,
   comment |-> None, title |-> title, description |-> description]

\* Insert one {author, comment} map into list obj right after element pred.
InsertOp(obj, pred, author, comment) ==
  [kind |-> "insert", obj |-> obj, pred |-> pred, author |-> author,
   comment |-> comment, title |-> None, description |-> None]

\* Operations only other clients write: overwrite root.comments with a
\* string, or delete the key.
SetCommentsOp ==
  [kind |-> "set", obj |-> HEAD, pred |-> HEAD, author |-> None,
   comment |-> None, title |-> None, description |-> None]

DelCommentsOp ==
  [kind |-> "del", obj |-> HEAD, pred |-> HEAD, author |-> None,
   comment |-> None, title |-> None, description |-> None]

MkChange(actor, seq, deps, op) ==
  [actor |-> actor, seq |-> seq, deps |-> deps, op |-> op]

\* ------------------------------------------------------------ Change Codec
\* The bytes of an entry: an encoded change, or bytes that decode to nothing.
GarbageBytes == [kind |-> "garbage", actor |-> 0, seq |-> 0, deps |-> {}, op |-> DelCommentsOp]

\* change.raw_bytes()
raw_bytes(c) ==
  [kind |-> "change", actor |-> c.actor, seq |-> c.seq, deps |-> c.deps, op |-> c.op]

\* automerge::Change::from_bytes: Ok(change) or Err(DecodeError).
from_bytes(data) ==
  IF data.kind = "change"
  THEN [ok |-> TRUE, change |-> MkChange(data.actor, data.seq, data.deps, data.op)]
  ELSE [ok |-> FALSE, change |-> MkChange(0, 0, {}, DelCommentsOp)]

\* ----------------------------------------------------------------- Backend
\* The Backend's op-set: the applied changes, in the order they were applied.
\* (Modelled from the specification, section 4.2.)
Backend_new == [changes |-> <<>>]

Ids(b) == {ChangeId(b.changes[i]) : i \in DOMAIN b.changes}

ChangeOf(b, id) ==
  b.changes[CHOOSE i \in DOMAIN b.changes : ChangeId(b.changes[i]) = id]

PosOf(b, id) == CHOOSE i \in DOMAIN b.changes : ChangeId(b.changes[i]) = id

RECURSIVE Depth(_, _)
\* The length of the longest dependency chain that ends in change id: a
\* logical clock, larger for a change than for every change it depends on.
Depth(b, id) ==
  LET c == ChangeOf(b, id)
  IN  1 + Max({0} \cup {Depth(b, d) : d \in c.deps})

\* A list operation is structurally valid when its list object exists and the
\* element it is placed after exists in that list.
StructurallyValid(b, c) ==
  \/ c.op.kind # "insert"
  \/ /\ c.op.obj \in Ids(b)
     /\ ChangeOf(b, c.op.obj).op.kind = "init"
     /\ \/ c.op.pred = HEAD
        \/ /\ c.op.pred \in Ids(b)
           /\ ChangeOf(b, c.op.pred).op.kind = "insert"
           /\ ChangeOf(b, c.op.pred).op.obj = c.op.obj

\* apply_changes as it would be if it took a change without looking for its
\* dependencies: the change is stored with the dependencies the op-set holds.
apply_changes_unchecked(b, c) ==
  IF ChangeId(c) \in Ids(b)
    THEN [ok |-> TRUE, err |-> None, backend |-> b]
  ELSE IF ~StructurallyValid(b, c)
    THEN [ok |-> FALSE, err |-> "Corrupt", backend |-> b]
  ELSE [ok |-> TRUE, err |-> None,
        backend |-> [changes |-> Append(b.changes, [c EXCEPT !.deps = c.deps \cap Ids(b)])]]

\* apply_changes as it would be if it did not look for the change in the
\* op-set: a change that is already present is stored again.
apply_changes_again(b, c) ==
  IF ~(c.deps \subseteq Ids(b))
    THEN [ok |-> FALSE, err |-> "MissingDependency", backend |-> b]
  ELSE IF ~StructurallyValid(b, c)
    THEN [ok |-> FALSE, err |-> "Corrupt", backend |-> b]
  ELSE [ok |-> TRUE, err |-> None, backend |-> [changes |-> Append(b.changes, c)]]

\* Backend::apply_changes(vec![c]): the result and the Backend afterwards.
apply_changes(b, c) ==
  IF ChangeId(c) \in Ids(b)
    THEN [ok |-> TRUE, err |-> None, backend |-> b]
  ELSE IF ~(c.deps \subseteq Ids(b))
    THEN [ok |-> FALSE, err |-> "MissingDependency", backend |-> b]
  ELSE IF ~StructurallyValid(b, c)
    THEN [ok |-> FALSE, err |-> "Corrupt", backend |-> b]
  ELSE [ok |-> TRUE, err |-> None, backend |-> [changes |-> Append(b.changes, c)]]

\* Precedes as it would be if it took the order in which the changes were
\* applied: the change applied later first.
PrecedesByArrival(b, c1, c2) == PosOf(b, ChangeId(c1)) > PosOf(b, ChangeId(c2))

\* The total order that places sibling list elements and picks the winner
\* of a map assignment: the causally later change first, and among
\* concurrent changes the one with the larger (actor, seq).
Precedes(b, c1, c2) ==
  LET d1 == Depth(b, ChangeId(c1))
      d2 == Depth(b, ChangeId(c2))
  IN  \/ d1 > d2
      \/ d1 = d2 /\ c1.actor > c2.actor
      \/ d1 = d2 /\ c1.actor = c2.actor /\ c1.seq > c2.seq

RECURSIVE SortChanges(_, _)
\* The changes of set S as a sequence, in Precedes order.
SortChanges(b, S) ==
  IF S = {} THEN <<>>
  ELSE LET first == CHOOSE c \in S : \A d \in S \ {c} : Precedes(b, c, d)
       IN  <<first>> \o SortChanges(b, S \ {first})

RECURSIVE ListFrom(_, _, _)
\* The elements of list obj that follow position pred: each element placed
\* right after pred, followed by the elements placed after it.
ListFrom(b, obj, pred) ==
  LET kids == {c \in Range(b.changes) :
                 c.op.kind = "insert" /\ c.op.obj = obj /\ c.op.pred = pred}
      ordered == SortChanges(b, kids)
  IN  Flatten([i \in DOMAIN ordered |->
                 <<[id |-> ChangeId(ordered[i]), author |-> ordered[i].op.author,
                    comment |-> ordered[i].op.comment]>>
                 \o ListFrom(b, obj, ChangeId(ordered[i]))])

\* The value root.comments holds.
AbsentComments == [kind |-> "absent", obj |-> HEAD, items |-> <<>>]
StrComments == [kind |-> "str", obj |-> HEAD, items |-> <<>>]

\* The materialized value tree, a function of the op-set.
Materialize(b) ==
  LET inits == {c \in Range(b.changes) : c.op.kind = "init"}
      writers == {c \in Range(b.changes) : c.op.kind \in {"init", "set", "del"}}
  IN  IF inits = {}
      THEN [title |-> None, description |-> None, author |-> None,
            comments |-> AbsentComments]
      ELSE LET root == SortChanges(b, inits)[1]
               w == SortChanges(b, writers)[1]
           IN  [title |-> root.op.title, description |-> root.op.description,
                author |-> root.op.author,
                comments |->
                  IF w.op.kind = "init"
                    THEN [kind |-> "list", obj |-> ChangeId(w),
                          items |-> ListFrom(b, ChangeId(w), HEAD)]
                  ELSE IF w.op.kind = "set" THEN StrComments
                  ELSE AbsentComments]

\* The changes of the op-set no other applied change depends on.
Frontier(b) ==
  {id \in Ids(b) : \A i \in DOMAIN b.changes : id \notin b.changes[i].deps}

\* Backend::get_patch: the whole value, the per-actor clock and the frontier.
get_patch(b) ==
  [value |-> Materialize(b),
   clock |-> [a \in {c.actor : c \in Range(b.changes)} |->
                Max({c.seq : c \in {x \in Range(b.changes) : x.actor = a}})],
   deps  |-> Frontier(b)]

\* ---------------------------------------------------------------- Frontend
\* (Modelled from the specification, section 4.3.)
Frontend_new(actor) ==
  [actor |-> actor, seq |-> 0,
   value |-> [title |-> None, description |-> None, author |-> None,
              comments |-> AbsentComments],
   deps |-> {}]

\* apply_patch as it would be if it left the sequence counter alone.
apply_patch_keep_seq(f, patch) ==
  [f EXCEPT !.value = patch.value, !.deps = patch.deps]

\* apply_patch as it would be if it added the patch's list elements to the
\* elements the snapshot already holds.
apply_patch_additive(f, patch) ==
  [f EXCEPT !.value = [patch.value EXCEPT
                         !.comments.items = f.value.comments.items \o @],
            !.deps = patch.deps,
            !.seq = IF f.actor \in DOMAIN patch.clock
                    THEN Max({f.seq, patch.clock[f.actor]}) ELSE f.seq]

\* Frontend::apply_patch: take the patch's value and frontier, and move the
\* sequence counter past the actor's changes the patch knows.
apply_patch(f, patch) ==
  [f EXCEPT !.value = patch.value,
            !.deps = patch.deps,
            !.seq = IF f.actor \in DOMAIN patch.clock
                    THEN Max({f.seq, patch.clock[f.actor]}) ELSE f.seq]

\* frontend.state().to_json(): the value without the elements' ids.
to_json(v) ==
  [title |-> v.title, description |-> v.description, author |-> v.author,
   comments |-> [kind |-> v.comments.kind,
                 items |-> [i \in DOMAIN v.comments.items |->
                              [author |-> v.comments.items[i].author,
                               comment |-> v.comments.items[i].comment]]]]

\* ------------------------------------------------------- History (storage)
\* (Modelled from the specification, sections 3 and 6.)
RECURSIVE Reach(_)
\* The entries reachable from the entries of S along parent links.
Reach(S) ==
  LET up == S \cup UNION {entries[e].parents : e \in S}
  IN  IF up = S THEN S ELSE Reach(up)

\* The entries of S that are no parent of an entry of S.
Tips(S) == {e \in S : \A f \in S : e \notin entries[f].parents}

\* store.retrieve: the history peer p's storage holds ({} is None).
History(p) == Reach(heads[p])

RECURSIVE TopoFrom(_, _)
TopoFrom(rest, seen) ==
  IF rest = {} THEN {<<>>}
  ELSE UNION {{<<e>> \o t : t \in TopoFrom(rest \ {e}, seen \cup {e})} :
                e \in {x \in rest : entries[x].parents \subseteq seen}}

\* The orders in which History::traverse may hand the entries of history H
\* to its visitor: every entry once, each after all of its parents.
TraversalOrders(H) == TopoFrom(H, {})

\* -------------------------------------------------------- evaluate_history
\* The state the traversal threads through the visitor: the Backend, and
\* with it what the visitor wrote to stderr and what it did at each entry.
Seed == [backend |-> Backend_new, log |-> <<>>, steps |-> <<>>]

RECURSIVE traverse(_, _)
\* One record of what the visitor did at entry e.
Step(e, status, before, after) ==
  [entry |-> e, status |-> status, before |-> before, after |-> after]

\* The Ok(c) arm as it would be if it answered ControlFlow::Break.
VisitDecodedBreak(acc, e, applied) ==
  [flow |-> "Break",
   acc |-> [backend |-> applied.backend,
            log |-> Append(acc.log, [entry |-> e, msg |-> "loading entry"]),
            steps |-> Append(acc.steps,
                        Step(e, IF applied.ok THEN "applied" ELSE applied.err,
                             acc.backend, applied.backend))]]

\* The Ok(c) arm as it would be if an apply_changes error ended the walk.
VisitDecodedStop(acc, e, applied) ==
  [flow |-> IF applied.ok THEN "Continue" ELSE "Break",
   acc |-> [backend |-> applied.backend,
            log |-> Append(acc.log, [entry |-> e, msg |-> "loading entry"]),
            steps |-> Append(acc.steps,
                        Step(e, IF applied.ok THEN "applied" ELSE applied.err,
                             acc.backend, applied.backend))]]

\* The Ok(c) arm (lines 320-322): backend.apply_changes(vec![c]).ok() keeps
\* the Backend and drops the result, error or not.
VisitDecoded(acc, e, applied) ==
  [flow |-> "Continue",
   acc |-> [backend |-> applied.backend,
            log |-> Append(acc.log, [entry |-> e, msg |-> "loading entry"]),
            steps |-> Append(acc.steps,
                        Step(e, IF applied.ok THEN "applied" ELSE applied.err,
                             acc.backend, applied.backend))]]

\* The Err(e) arm as it would be if a decode error ended the walk.
VisitUndecodedBreak(acc, e) ==
  [flow |-> "Break",
   acc |-> [backend |-> acc.backend,
            log |-> acc.log \o <<[entry |-> e, msg |-> "loading entry"],
                                 [entry |-> e, msg |-> "Error loading a change"]>>,
            steps |-> Append(acc.steps,
                        Step(e, "DecodeError", acc.backend, acc.backend))]]

\* The Err(e) arm (lines 323-325): the error is printed.
VisitUndecoded(acc, e) ==
  [flow |-> "Continue",
   acc |-> [backend |-> acc.backend,
            log |-> acc.log \o <<[entry |-> e, msg |-> "loading entry"],
                                 [entry |-> e, msg |-> "Error loading a change"]>>,
            steps |-> Append(acc.steps,
                        Step(e, "DecodeError", acc.backend, acc.backend))]]

\* The arm the visitor takes for the decoded bytes.
VisitArm(acc, e, decoded) ==
  IF decoded.ok
  THEN VisitDecoded(acc, e, apply_changes(acc.backend, decoded.change))
  ELSE VisitUndecoded(acc, e)

\* The closure evaluate_history passes to history.traverse (lines 315-330).
Visit(acc, e) == VisitArm(acc, e, from_bytes(entries[e].contents))

\* What the traversal does with the visitor's answer.
Continue(rest, r) ==
  IF r.flow = "Break" THEN r.acc ELSE traverse(rest, r.acc)

\* History::traverse: hand the entries to the visitor in the given order,
\* threading its state, until the order ends or the visitor breaks.
traverse(order, acc) ==
  IF order = <<>> THEN acc
  ELSE Continue(Tail(order), Visit(acc, Head(order)))

\* evaluate_history (lines 314-334), for the traversal order storage chose;
\* actor is the actor id of the new Frontend.  Lines 331-333: a new Frontend
\* takes the Backend's patch.
Evaluated(acc, actor) ==
  [ok |-> TRUE,
   frontend |-> apply_patch(Frontend_new(actor), get_patch(acc.backend)),
   backend |-> acc.backend, log |-> acc.log, steps |-> acc.steps]

\* evaluate_history as it would be if an entry that does not decode made it
\* return Err.
evaluate_history_strict(order, actor) ==
  [Evaluated(traverse(order, Seed), actor) EXCEPT
     !.ok = \A e \in Range(order) : from_bytes(entries[e].contents).ok]

evaluate_history(order, actor) == Evaluated(traverse(order, Seed), actor)

\* ---------------------------------------------------------------- commands
NoChange == MkChange(0, 0, {}, DelCommentsOp)

EmptyValue ==
  [title |-> None, description |-> None, author |-> None, comments |-> AbsentComments]

\* The record of a command that evaluated nothing and printed no document.
Quiet(cmd, p, outcome) ==
  [cmd |-> cmd, peer |-> p, outcome |-> outcome, steps |-> <<>>, log |-> <<>>,
   value |-> to_json(EmptyValue), seen |-> AbsentComments, change |-> NoChange,
   applied |-> FALSE, rows |-> <<>>]

\* An entry as storage commits it.  arg records the command's argument.
Entry(parents, contents, author, message, arg) ==
  [parents |-> parents, contents |-> contents, author |-> author,
   message |-> message, arg |-> arg]

\* initial_doc as it would be if the description took the title's text.
initial_doc_title_twice(author, title, description) ==
  raw_bytes(MkChange(author, 1, {}, InitOp(Urn(author), title, title)))

\* initial_doc (lines 269-289): the one change of a new issue.
initial_doc(author, title, description) ==
  LET frontend == Frontend_new(author)
      change == MkChange(frontend.actor, frontend.seq + 1, frontend.deps,
                         InitOp(Urn(author), title, description))
      local == apply_changes(Backend_new, change)
  IN  raw_bytes(local.backend.changes[1])

\* Command::Create (lines 118-133).
Create(p, title, description) ==
  /\ entries = <<>>
  /\ entries' = <<Entry({}, initial_doc(p, title, description), p,
                        "create issue", title)>>
  /\ heads' = [heads EXCEPT ![p] = {1}]
  /\ last' = Quiet("create", p, "created")

\* What get prints for an evaluated history (lines 140-151).
Printed(p, ev) ==
  IF ev.ok
  THEN [Quiet("get", p, "printed") EXCEPT
          !.steps = ev.steps, !.log = ev.log, !.value = to_json(ev.frontend.value)]
  ELSE Quiet("get", p, "error evaluating")

\* Command::Retrieve (lines 134-155) on the history H storage returned.
RetrieveFrom(p, H) ==
  /\ UNCHANGED <<entries, heads>>
  /\ IF H = {}
     THEN last' = Quiet("get", p, "No object found")
     ELSE \E order \in TraversalOrders(H) :
            last' = Printed(p, evaluate_history(order, p))

\* Retrieve as it would be if it evaluated the history of no object.
RetrieveAlways(p) ==
  /\ UNCHANGED <<entries, heads>>
  /\ \E order \in TraversalOrders(History(p)) :
       last' = Printed(p, evaluate_history(order, p))

\* Command::Retrieve (lines 134-155), on one peer's only object.
Retrieve(p) == RetrieveFrom(p, History(p))

\* InsertIndex as it would be if the closure did not read the list's length.
InsertIndexZero(comments) == 0

\* The index at which the add-comment closure inserts (lines 174-176, 192).
InsertIndex(comments) == Len(comments.items)

\* LocalChange::insert at path comments[index]: the new element is placed
\* right after the element now before that index.
InsertAt(frontend, comments, index, author, comment) ==
  [some |-> TRUE,
   change |-> MkChange(frontend.actor, frontend.seq + 1, frontend.deps,
                InsertOp(comments.obj,
                         IF index = 0 THEN HEAD ELSE comments.items[index].id,
                         Urn(author), comment)),
   log |-> <<>>]

\* The add-comment closure (lines 171-195) on the value it finds at comments.
CommentClosure(frontend, comments, author, comment) ==
  IF comments.kind = "list"
  THEN InsertAt(frontend, comments, InsertIndex(comments), author, comment)
  ELSE \* eprintln, return Ok(()): no operation is recorded
       [some |-> FALSE, change |-> NoChange,
        log |-> <<[entry |-> 0, msg |-> "invalid issue document"]>>]

\* frontend.change with the add-comment closure (lines 170-198): the change
\* it authors, or none when the closure records no operation.
AuthorComment(frontend, author, comment) ==
  CommentClosure(frontend, frontend.value.comments, author, comment)

\* The record of an add-comment run that evaluated the history.
Ran(p, ev, frontend, authored, outcome, applied) ==
  [cmd |-> "add-comment", peer |-> p, outcome |-> outcome, steps |-> ev.steps,
   log |-> ev.log \o authored.log, value |-> to_json(EmptyValue),
   seen |-> frontend.value.comments, change |-> authored.change,
   applied |-> applied, rows |-> <<>>]

\* Lines 199-214: apply the authored change locally, then store.update.
Finish(p, ev, frontend, authored, local) ==
  IF ~authored.some
    THEN \* .1.unwrap() on no change
         [commit |-> FALSE, contents |-> GarbageBytes,
          last |-> Ran(p, ev, frontend, authored, "panic", FALSE)]
  ELSE IF ~local.ok
    THEN \* apply_changes(..).unwrap() on an error
         [commit |-> FALSE, contents |-> GarbageBytes,
          last |-> Ran(p, ev, frontend, authored, "panic", FALSE)]
  ELSE [commit |-> TRUE, contents |-> raw_bytes(authored.change),
        last |-> Ran(p, ev, frontend, authored, "Update complete",
                     authored.change \in Range(local.backend.changes))]

\* Lines 170-200: author the change and apply it to the local Backend.
Authored(p, ev, frontend, authored) ==
  Finish(p, ev, frontend, authored, apply_changes(ev.backend, authored.change))

\* Line 169: the Backend's patch is applied to the Frontend once more.
Patched(p, comment, ev, frontend) ==
  Authored(p, ev, frontend, AuthorComment(frontend, p, comment))

\* Lines 162-168: the history is evaluated, or the command ends.
Loaded(p, comment, ev) ==
  IF ~ev.ok
  THEN [commit |-> FALSE, contents |-> GarbageBytes,
        last |-> Quiet("add-comment", p, "error loading issue")]
  ELSE Patched(p, comment, ev, apply_patch(ev.frontend, get_patch(ev.backend)))

\* What add-comment does once the object is found (lines 162-214): the
\* record of the run and, when the run reaches store.update, the new bytes.
RunAddComment(p, comment, order) == Loaded(p, comment, evaluate_history(order, p))

\* Update as it would be if store.update ran before the unwraps that end a
\* failed run.
UpdateAlways(p, comment, r) ==
  /\ last' = r.last
  /\ Len(entries) < MaxEntries
  /\ entries' = Append(entries,
                  Entry(heads[p], r.contents, p, "add comment", comment))
  /\ heads' = [heads EXCEPT ![p] = {Len(entries) + 1}]

\* store.update (lines 202-213), reached only by a run that commits.
Update(p, comment, r) ==
  /\ last' = r.last
  /\ IF r.commit
     THEN /\ Len(entries) < MaxEntries
          /\ entries' = Append(entries,
                          Entry(heads[p], r.contents, p, "add comment", comment))
          /\ heads' = [heads EXCEPT ![p] = {Len(entries) + 1}]
     ELSE UNCHANGED <<entries, heads>>

\* Command::AddComment (lines 156-218).
AddComment(p, comment) ==
  IF History(p) = {}
  THEN /\ last' = Quiet("add-comment", p, "No object found")
       /\ UNCHANGED <<entries, heads>>
  ELSE \E order \in TraversalOrders(History(p)) :
         Update(p, comment, RunAddComment(p, comment, order))

\* ------------------------------------------------------------- environment
\* Replication: peer p fetches the history peer q holds.
Sync(p, q) ==
  /\ p # q
  /\ heads[q] # {}
  /\ Tips(Reach(heads[p] \cup heads[q])) # heads[p]
  /\ heads' = [heads EXCEPT ![p] = Tips(Reach(heads[p] \cup heads[q]))]
  /\ entries' = entries
  /\ last' = Quiet("sync", 0, "fetched")

ForeignKinds == {"garbage", "missing-dep", "corrupt", "duplicate", "set", "del"}

\* The bytes another client writes on top of history H.
ForeignBytes(kind, e, seq, deps, obj) ==
  CASE kind = "garbage" -> GarbageBytes
    [] kind = "missing-dep" ->
         raw_bytes(MkChange(ForeignActor, seq, deps \cup {MissingId},
                            InsertOp(obj, HEAD, Urn(ForeignActor), "remote")))
    [] kind = "corrupt" ->
         raw_bytes(MkChange(ForeignActor, seq, deps,
                            InsertOp(BogusObj, HEAD, Urn(ForeignActor), "remote")))
    [] kind = "duplicate" -> entries[e].contents
    [] kind = "set" -> raw_bytes(MkChange(ForeignActor, seq, deps, SetCommentsOp))
    [] kind = "del" -> raw_bytes(MkChange(ForeignActor, seq, deps, DelCommentsOp))

ForeignOn(kind, e, b) ==
  ForeignBytes(kind, e, Len(entries) + 1, Frontier(b), Materialize(b).comments.obj)

ForeignContents(H, kind, e) ==
  ForeignOn(kind, e, traverse(CHOOSE o \in TraversalOrders(H) : TRUE, Seed).backend)

\* Another client's entry reaches peer p's storage: a child of p's heads.
\* Other clients replicate with the peer that created the object.
Foreign(p, kind) ==
  /\ History(p) # {}
  /\ p = entries[1].author
  /\ Len(entries) < MaxEntries
  /\ Cardinality({i \in DOMAIN entries : entries[i].message = "foreign"}) < MaxForeign
  /\ \E e \in History(p) :
       /\ kind # "duplicate" => e = Max(History(p))
       /\ kind = "duplicate" => from_bytes(entries[e].contents).ok
       /\ entries' = Append(entries,
                       Entry(heads[p], ForeignContents(History(p), kind, e),
                             ForeignActor, "foreign", kind))
  /\ heads' = [heads EXCEPT ![p] = {Len(entries) + 1}]
  /\ last' = Quiet("foreign", 0, "written")

\* ----------------------------------------------------------- specification
Init ==
  /\ entries = <<>>
  /\ heads = [p \in Peers |-> {}]
  /\ last = Quiet("start", 0, "none")

Next ==
  \/ \E p \in Peers, t \in Titles, d \in Descriptions : Create(p, t, d)
  \/ \E p \in Peers : Retrieve(p)
  \/ \E p \in Peers, c \in {Texts[Len(entries) + 1]} : AddComment(p, c)
  \/ \E p, q \in Peers : Sync(p, q)
  \/ \E p \in Peers, k \in ForeignKinds : Foreign(p, k)

Spec == Init /\ [][Next]_vars

\* ------------------------------------------------------- the other commands
\* (Rows are the lines a command prints: kind, the id it names, for an edge
\* the parent it points to, for a title row the title.)
Row(kind, id, to, text) == [kind |-> kind, id |-> id, to |-> to, text |-> text]

\* serde_json::from_value into struct Issue (lines 291-303): every field
\* must be there with its type.
IsIssue(json) ==
  /\ json.title # None
  /\ json.description # None
  /\ json.author # None
  /\ json.comments.kind = "list"

\* Issue::try_from as it would be if a failed projection ended the process.
Issue_try_from_abort(ev) ==
  IF ev.ok /\ IsIssue(to_json(ev.frontend.value))
  THEN [ok |-> TRUE, abort |-> FALSE, title |-> ev.frontend.value.title]
  ELSE [ok |-> FALSE, abort |-> TRUE, title |-> None]

\* impl TryFrom<&History> for Issue (lines 305-312).
Issue_try_from(ev) ==
  IF ~ev.ok
    THEN [ok |-> FALSE, abort |-> FALSE, title |-> None]
  ELSE IF IsIssue(to_json(ev.frontend.value))
    THEN [ok |-> TRUE, abort |-> FALSE, title |-> ev.frontend.value.title]
  ELSE [ok |-> FALSE, abort |-> FALSE, title |-> None]

\* The match of Command::List (lines 226-233): one line for the object.
ListRow(id, issue) ==
  IF issue.ok THEN Row("title", id, 0, issue.title)
  ELSE Row("failed to deserialize", id, 0, None)

RECURSIVE ListRows(_, _, _)
\* The for loop of Command::List (lines 224-234) over the objects ids: the
\* outputs it may print, one for every choice of traversal orders.  The loop
\* ends where a projection ends the process.
ListRows(p, ids, history) ==
  IF ids = <<>> THEN {<<>>}
  ELSE UNION {
         LET issue == Issue_try_from(evaluate_history(o, p))
         IN  IF issue.abort THEN {<<>>}
             ELSE {<<ListRow(Head(ids), issue)>> \o rest :
                     rest \in ListRows(p, Tail(ids), history)} :
         o \in TraversalOrders(history[Head(ids)])}

RECURSIVE Ascending(_)
\* The elements of a set of numbers as a sequence, smallest first.
Ascending(S) ==
  IF S = {} THEN <<>>
  ELSE LET m == CHOOSE x \in S : \A y \in S : x <= y
       IN  <<m>> \o Ascending(S \ {m})

\* Command::List (lines 219-235) over the objects storage returned, each
\* with its history.
ListOver(p, ids, history) ==
  /\ UNCHANGED <<entries, heads>>
  /\ \E rows \in ListRows(p, Ascending(ids), history) :
       last' = [Quiet("list", p, "listed") EXCEPT !.rows = rows]

\* (Modelled from the specification, section 4.5.)
\* The declarations of entry e: its node, then an edge to each parent.
Declarations(e) ==
  <<Row("node", e, 0, None)>> \o
  [i \in 1..Cardinality(entries[e].parents) |->
     Row("edge", e, Ascending(entries[e].parents)[i], None)]

RECURSIVE build_revisiting(_, _, _)
\* build as it would be without its visited-set.
build_revisiting(stack, visited, out) ==
  IF stack = <<>> THEN out
  ELSE build_revisiting(Ascending(entries[Head(stack)].parents) \o Tail(stack),
                        visited, out \o Declarations(Head(stack)))

RECURSIVE build(_, _, _)
\* The Change-Graph Builder: a worklist walk from the heads along parent
\* links, with a visited-set keyed by entry id.
build(stack, visited, out) ==
  IF stack = <<>> THEN out
  ELSE IF Head(stack) \in visited THEN build(Tail(stack), visited, out)
  ELSE build(Ascending(entries[Head(stack)].parents) \o Tail(stack),
             visited \cup {Head(stack)}, out \o Declarations(Head(stack)))

RECURSIVE StartOrders(_)
\* The orders in which the builder may be given the heads.
StartOrders(S) ==
  IF S = {} THEN {<<>>}
  ELSE UNION {{<<e>> \o o : o \in StartOrders(S \ {e})} : e \in S}

\* changegraph_info_for_object(..).dotviz for history H.
dotviz(start) == build(start, {}, <<>>)

\* Command::ChangeGraph (lines 236-246) on the history H storage returned:
\* the second unwrap ends the process when there is no object.
ChangeGraphFrom(p, H) ==
  /\ UNCHANGED <<entries, heads>>
  /\ IF H = {}
     THEN last' = Quiet("changegraph", p, "panic")
     ELSE \E start \in StartOrders(Tips(H)) :
            last' = [Quiet("changegraph", p, "printed") EXCEPT
                       !.rows = dotviz(start)]

\* (Modelled from the specification, section 4.2.)
\* Backend::save: the op-set, one row for every change.
save(b) ==
  [i \in 1..Cardinality(Ids(b)) |->
     Row("change", SortChanges(b, Range(b.changes))[i].actor,
         SortChanges(b, Range(b.changes))[i].seq, None)]

\* What automerge-doc writes for an evaluated history (lines 254-261).
Saved(p, ev) ==
  IF ev.ok
  THEN [Quiet("automerge-doc", p, "saved") EXCEPT
          !.steps = ev.steps, !.log = ev.log, !.rows = save(ev.backend)]
  ELSE Quiet("automerge-doc", p, "error")

\* AutomergeDocFrom as it would be if it stored the document it saved.
AutomergeDocStoring(p, H) ==
  /\ IF H = {}
     THEN last' = Quiet("automerge-doc", p, "No object found")
     ELSE \E order \in TraversalOrders(H) :
            last' = Saved(p, evaluate_history(order, p))
  /\ entries' = Append(entries, Entry(Tips(H), GarbageBytes, p, "saved", None))
  /\ heads' = [heads EXCEPT ![p] = (@ \ Tips(H)) \cup {Len(entries) + 1}]

\* Command::AutomergeDoc (lines 247-265) on the history H storage returned.
AutomergeDocFrom(p, H) ==
  /\ UNCHANGED <<entries, heads>>
  /\ IF H = {}
     THEN last' = Quiet("automerge-doc", p, "No object found")
     ELSE \E order \in TraversalOrders(H) :
            last' = Saved(p, evaluate_history(order, p))

\* ---------------------------------------------------------- several objects
\* (Storage is modelled from the specification, section 6.  The entries of
\* all objects are in entries; an object's id is the number of its root
\* entry, and a peer's heads are the tips of all the objects it holds.)
RECURSIVE RootOf(_)
\* The root of the object entry e belongs to.
RootOf(e) ==
  IF entries[e].parents = {} THEN e
  ELSE RootOf(CHOOSE f \in entries[e].parents : TRUE)

\* store.list: the objects peer p's storage holds.
Objects(p) == {e \in History(p) : entries[e].parents = {}}

\* store.retrieve: the history of object id in peer p's storage ({} is None).
ObjectHistory(p, id) == {e \in History(p) : RootOf(e) = id}

\* The issue_id arguments: the id of every object there is, and an id that
\* names no object.
NoIssue == 0
IssueIds == {e \in DOMAIN entries : entries[e].parents = {}} \cup {NoIssue}

\* One peer's store is modelled: no other peer holds an entry.
Alone(p) == \A q \in Peers \ {p} : heads[q] = {}

\* Command::Create (lines 118-133) in a store that may hold other objects.
CreateIssue(p, title, description) ==
  /\ Alone(p)
  /\ Len(entries) < StoreEntries
  /\ Cardinality({e \in DOMAIN entries : entries[e].parents = {}}) < StoreObjects
  /\ entries' = Append(entries, Entry({}, initial_doc(p, title, description), p,
                                      "create issue", title))
  /\ heads' = [heads EXCEPT ![p] = @ \cup {Len(entries) + 1}]
  /\ last' = Quiet("create", p, "created")

\* Command::Retrieve (lines 134-155) on object id.
Get(p, id) == RetrieveFrom(p, ObjectHistory(p, id))

\* store.update (lines 202-213) on the object whose tips are tips.
UpdateObject(p, comment, r, tips) ==
  /\ last' = r.last
  /\ IF r.commit
     THEN /\ Len(entries) < StoreEntries
          /\ entries' = Append(entries,
                          Entry(tips, r.contents, p, "add comment", comment))
          /\ heads' = [heads EXCEPT ![p] = (@ \ tips) \cup {Len(entries) + 1}]
     ELSE UNCHANGED <<entries, heads>>

\* Command::AddComment (lines 156-218) on object id.
CommentOn(p, id, comment) ==
  IF ObjectHistory(p, id) = {}
  THEN /\ last' = Quiet("add-comment", p, "No object found")
       /\ UNCHANGED <<entries, heads>>
  ELSE \E order \in TraversalOrders(ObjectHistory(p, id)) :
         UpdateObject(p, comment, RunAddComment(p, comment, order),
                      Tips(ObjectHistory(p, id)))

\* Command::List (lines 219-235).
List(p) ==
  ListOver(p, Objects(p), [id \in Objects(p) |-> ObjectHistory(p, id)])

\* Command::ChangeGraph (lines 236-246) on object id.
ChangeGraphOf(p, id) == ChangeGraphFrom(p, ObjectHistory(p, id))

\* Command::AutomergeDoc (lines 247-265) on object id.
AutomergeDocOf(p, id) == AutomergeDocFrom(p, ObjectHistory(p, id))

\* What other clients write into the store: bytes that do not decode, and a
\* change that deletes the comments list.
DamageKinds == {"garbage", "del"}

\* How many entries other clients wrote.
ForeignCount ==
  Cardinality({i \in DOMAIN entries : entries[i].message = "foreign"})

\* Another client's entry reaches object id of peer p's storage.
Damage(p, id, kind) ==
  /\ ObjectHistory(p, id) # {}
  /\ Len(entries) < StoreEntries
  /\ ForeignCount < MaxForeign
  /\ entries' = Append(entries,
                  Entry(Tips(ObjectHistory(p, id)),
                        ForeignContents(ObjectHistory(p, id), kind, id),
                        ForeignActor, "foreign", kind))
  /\ heads' = [heads EXCEPT ![p] =
                 (@ \ Tips(ObjectHistory(p, id))) \cup {Len(entries) + 1}]
  /\ last' = Quiet("foreign", 0, "written")

\* An object of another client, whose root entry does not decode, reaches
\* peer p's storage.
DamagedObject(p) ==
  /\ Alone(p)
  /\ Len(entries) < StoreEntries
  /\ Cardinality({e \in DOMAIN entries : entries[e].parents = {}}) < StoreObjects
  /\ ForeignCount < MaxForeign
  /\ entries' = Append(entries,
                  Entry({}, GarbageBytes, ForeignActor, "foreign", "garbage"))
  /\ heads' = [heads EXCEPT ![p] = @ \cup {Len(entries) + 1}]
  /\ last' = Quiet("foreign", 0, "written")

NextStore ==
  \/ \E p \in Peers, t \in Titles, d \in Descriptions : CreateIssue(p, t, d)
  \/ \E p \in Peers, id \in IssueIds : Get(p, id)
  \/ \E p \in Peers, id \in IssueIds, c \in {Texts[Len(entries) + 1]} :
       CommentOn(p, id, c)
  \/ \E p \in Peers : List(p)
  \/ \E p \in Peers, id \in IssueIds : ChangeGraphOf(p, id)
  \/ \E p \in Peers, id \in IssueIds : AutomergeDocOf(p, id)
  \/ \E p \in Peers, id \in IssueIds, k \in DamageKinds : Damage(p, id, k)
  \/ \E p \in Peers : DamagedObject(p)

SpecStore == Init /\ [][NextStore]_vars

\* ------------------------------------------------------- a DAG of any shape
\* (Storage is modelled from the specification, section 3: "a DAG with one
\* or more roots and possibly multiple concurrent heads".)
\* What the entries of the DAG carry: bytes that do not decode, or a change
\* without dependencies.
GrowKinds == {"garbage", "change"}

GrowBytes(kind) ==
  IF kind = "garbage" THEN GarbageBytes
  ELSE raw_bytes(MkChange(ForeignActor, Len(entries) + 1, {},
                          InitOp(Urn(ForeignActor), "Bug", "desc")))

\* An entry with parents S reaches the storage of peer p, the one peer that
\* holds the DAG.
Grow(p, S, kind) ==
  /\ Len(entries) < WalkEntries
  /\ Alone(p)
  /\ S \subseteq DOMAIN entries
  /\ entries' = Append(entries, Entry(S, GrowBytes(kind), ForeignActor,
                                      "foreign", kind))
  /\ heads' = [heads EXCEPT ![p] = (@ \ Reach(S)) \cup {Len(entries) + 1}]
  /\ last' = Quiet("foreign", 0, "written")

\* Command::ChangeGraph (lines 236-246) on one peer's only object.
ChangeGraph(p) == ChangeGraphFrom(p, History(p))

NextWalk ==
  \/ \E p \in Peers, S \in SUBSET (1..WalkEntries), k \in GrowKinds : Grow(p, S, k)
  \/ \E p \in Peers : Retrieve(p)
  \/ \E p \in Peers : ChangeGraph(p)

SpecWalk == Init /\ [][NextWalk]_vars

\* ------------------------------------------------- vocabulary of the claims
\* What get prints for peer p when storage hands out the entries in order o.
RetrieveValue(p, o) == Printed(p, evaluate_history(o, p)).value

\* What the visitor did at each entry of o.
StepsOf(p, o) == traverse(o, Seed).steps

Failures == {"DecodeError", "MissingDependency", "Corrupt"}

Holders == {p \in Peers : History(p) # {}}

\* The change an entry carries (for an entry whose bytes decode).
ChangeAt(e) == from_bytes(entries[e].contents).change

Decodable == {e \in DOMAIN entries : from_bytes(entries[e].contents).ok}

\* One entry for every distinct change of the store.
DistinctChanges ==
  {e \in Decodable : \A f \in Decodable : f < e => entries[f].contents # entries[e].contents}

RECURSIVE DepOrdersFrom(_, _)
DepOrdersFrom(rest, seen) ==
  IF rest = {} THEN {<<>>}
  ELSE UNION {{<<e>> \o t : t \in DepOrdersFrom(rest \ {e}, seen \cup {ChangeId(ChangeAt(e))})} :
                e \in {x \in rest : ChangeAt(x).deps \subseteq seen}}

\* The orders of the changes of S in which every change comes after all the
\* changes it depends on.
DepOrders(S) == DepOrdersFrom(S, {})

\* The value tree after folding the entries of o into a fresh Backend.
FoldValue(o) == Materialize(traverse(o, Seed).backend)

\* ------------------------------------------------------------------ claims
\* C1 (convergence): for every set of changes and every two orders of it that
\* respect dependency order, folding the changes one by one into a fresh
\* Backend yields the same value tree.
C1_Convergence ==
  \A S \in SUBSET DistinctChanges :
    \A o1, o2 \in DepOrders(S) : FoldValue(o1) = FoldValue(o2)

\* C1 witness: a set of changes with two different dependency-respecting
\* orders whose fold holds two comments.
C1_Witness ==
  \E S \in SUBSET DistinctChanges :
    \E o1, o2 \in DepOrders(S) :
      o1 # o2 /\ Len(FoldValue(o1).comments.items) >= 2

\* Two add-comment entries by different authors written against the same
\* prior heads.
Siblings(H) ==
  {pair \in H \X H :
     /\ pair[1] < pair[2]
     /\ entries[pair[1]].message = "add comment"
     /\ entries[pair[2]].message = "add comment"
     /\ entries[pair[1]].author # entries[pair[2]].author
     /\ entries[pair[1]].parents = entries[pair[2]].parents}

OwnEntries(H) == \A e \in H : entries[e].message # "foreign"

Occurrences(items, author, comment) ==
  Cardinality({i \in DOMAIN items : items[i].author = author /\ items[i].comment = comment})

\* C2 (concurrent add-comment): when a history made by this program holds two
\* add-comment entries by different authors written against the same heads,
\* every Retrieve prints each of the two comments exactly once, prints as many
\* comments as the history has add-comment entries, and prints the same list
\* whichever order the traversal visits the entries in.
C2_ConcurrentComments ==
  \A p \in Holders :
    (OwnEntries(History(p)) /\ Siblings(History(p)) # {}) =>
      \A o1, o2 \in TraversalOrders(History(p)) :
        LET v == RetrieveValue(p, o1)
        IN  /\ v.comments.kind = "list"
            /\ Len(v.comments.items) =
                 Cardinality({e \in History(p) : entries[e].message = "add comment"})
            /\ \A pair \in Siblings(History(p)) :
                 \A k \in {1, 2} :
                   Occurrences(v.comments.items, Urn(entries[pair[k]].author),
                               entries[pair[k]].arg) = 1
            /\ v = RetrieveValue(p, o2)

\* C2 witness: a get that printed exactly the two comments of two sibling
\* entries, from a history of the root and the two siblings.
C2_Witness ==
  /\ last.cmd = "get"
  /\ last.outcome = "printed"
  /\ Len(last.value.comments.items) = 2
  /\ Siblings(History(last.peer)) # {}
  /\ Cardinality(History(last.peer)) = 3

\* C3 (causal visit order): an evaluation visits every entry reachable from
\* the heads exactly once, and each entry only after all of its parents.
C3_CausalVisit ==
  \A p \in Holders :
    \A o \in TraversalOrders(History(p)) :
      LET st == StepsOf(p, o)
      IN  /\ {st[i].entry : i \in DOMAIN st} = History(p)
          /\ Len(st) = Cardinality(History(p))
          /\ \A i \in DOMAIN st :
               entries[st[i].entry].parents \subseteq {st[j].entry : j \in 1..(i - 1)}

\* C3 witness: an evaluation that visited three entries, the second of them
\* undecodable.
C3_Witness ==
  /\ last.cmd \in {"get", "add-comment"}
  /\ Len(last.steps) = 3
  /\ last.steps[2].status = "DecodeError"
  /\ entries[last.steps[3].entry].parents # {}

\* C4 (dependency enforcement): a change that declares a dependency the
\* op-set does not hold is rejected with MissingDependency, and the Backend
\* and its value are after the attempt what they were before it.
C4_DependencyEnforced ==
  \A p \in Holders :
    \A o \in TraversalOrders(History(p)) :
      LET st == StepsOf(p, o)
      IN  \A i \in DOMAIN st :
            (/\ st[i].entry \in Decodable
             /\ ChangeId(ChangeAt(st[i].entry)) \notin Ids(st[i].before)
             /\ ~(ChangeAt(st[i].entry).deps \subseteq Ids(st[i].before)))
            => /\ st[i].status = "MissingDependency"
               /\ st[i].after = st[i].before
               /\ Materialize(st[i].after) = Materialize(st[i].before)

\* C4 witness: an evaluation in which a change was rejected for a missing
\* dependency after the root change had been applied.
C4_Witness ==
  \E i \in DOMAIN last.steps :
    /\ last.steps[i].status = "MissingDependency"
    /\ Len(last.steps[i].before.changes) >= 1

\* The entries of order o whose step is none of the failures.
Survivors(o, st) ==
  LET ok == {st[i].entry : i \in {j \in DOMAIN st : st[j].status \notin Failures}}
      Keep(e) == e \in ok
  IN  SelectSeq(o, Keep)

\* C5 (skip policy): an entry whose change fails to decode or to merge leaves
\* the Backend exactly as it was, every other entry is still visited, and
\* evaluate_history returns the Frontend and Backend built from the entries
\* that did apply.
C5_SkipPolicy ==
  \A p \in Holders :
    \A o \in TraversalOrders(History(p)) :
      LET ev == evaluate_history(o, p)
      IN  /\ ev.ok
          /\ Len(ev.steps) = Len(o)
          /\ \A i \in DOMAIN ev.steps :
               /\ ev.steps[i].entry = o[i]
               /\ ev.steps[i].status \in Failures => ev.steps[i].after = ev.steps[i].before
               /\ i > 1 => ev.steps[i].before = ev.steps[i - 1].after
          /\ ev.backend = traverse(Survivors(o, ev.steps), Seed).backend
          /\ ev.frontend.value = Materialize(ev.backend)

\* C5 witness: an evaluation in which an entry failed to merge and a later
\* entry was applied.
C5_Witness ==
  \E i, j \in DOMAIN last.steps :
    /\ i < j
    /\ last.steps[i].status \in {"MissingDependency", "Corrupt"}
    /\ last.steps[j].status = "applied"
    /\ last.steps[j].after # last.steps[j].before

\* C6 (diagnostics on skip), as claimed: every entry an evaluation skips,
\* for a decode error or for an apply_changes error, has an error record in
\* what the evaluation wrote to stderr.
C6_EverySkipLogged ==
  \A p \in Holders :
    \A o \in TraversalOrders(History(p)) :
      LET ev == evaluate_history(o, p)
      IN  \A i \in DOMAIN ev.steps :
            ev.steps[i].status \in Failures =>
              \E k \in DOMAIN ev.log :
                /\ ev.log[k].entry = ev.steps[i].entry
                /\ ev.log[k].msg # "loading entry"

\* The entries of order o that repeat the bytes of an earlier entry of o.
Repeats(o) == {o[i] : i \in {j \in DOMAIN o :
                  \E k \in 1..(j - 1) : entries[o[k]].contents = entries[o[j]].contents}}

FirstCopies(o) ==
  LET Keep(e) == e \notin Repeats(o)
  IN  SelectSeq(o, Keep)

\* C7 (idempotence): a history in which a change appears in two entries
\* evaluates to the Backend and the value tree of the history with the change
\* appearing once.
C7_Idempotence ==
  \A p \in Holders :
    \A o \in TraversalOrders(History(p)) :
      /\ traverse(o, Seed).backend = traverse(FirstCopies(o), Seed).backend
      /\ FoldValue(o) = FoldValue(FirstCopies(o))

\* C7 witness: an evaluation that met, for the second time, a comment change
\* it had applied.
C7_Witness ==
  \E i, j \in DOMAIN last.steps :
    /\ i < j
    /\ entries[last.steps[i].entry].contents = entries[last.steps[j].entry].contents
    /\ last.steps[i].status = "applied"
    /\ last.steps[i].after # last.steps[i].before
    /\ entries[last.steps[i].entry].message = "add comment"

\* What C8 asks of one step.
C8_Step ==
  /\ (last'.cmd = "add-comment" /\ last'.outcome # "Update complete")
       => UNCHANGED <<entries, heads>>
  /\ (last'.cmd = "add-comment" /\ last'.outcome = "Update complete")
       => /\ last'.applied
          /\ entries' = Append(entries, entries'[Len(entries')])
          /\ from_bytes(entries'[Len(entries')].contents).ok
          /\ from_bytes(entries'[Len(entries')].contents).change = last'.change

\* C8 (no partial commit): an add-comment run that does not end in "Update
\* complete" (object not found, evaluation failed, invalid path, authoring or
\* applying failed) leaves the entries and the heads unchanged, and a run
\* that commits appends one entry, which carries the change the run authored
\* and applied to its Backend.
C8_NoPartialCommit == [][C8_Step]_vars

\* C8 witness: an add-comment run that found the object, met a comments
\* value that is no list, and ended without "Update complete".
C8_Witness ==
  /\ last.cmd = "add-comment"
  /\ last.outcome = "panic"
  /\ last.seen.kind # "list"
  /\ Len(last.steps) >= 2

\* C9 (invalid path), as claimed: an add-comment run that finds root.comments
\* absent or no list ends with a structured InvalidPath error, not a panic.
C9_InvalidPathError ==
  (/\ last.cmd = "add-comment"
   /\ last.outcome \notin {"No object found", "error loading issue"}
   /\ last.seen.kind # "list")
  => last.outcome = "InvalidPath"

\* A history that is one chain of entries written by this program.
Chain(H) ==
  /\ OwnEntries(H)
  /\ \A e \in H : Cardinality(entries[e].parents) <= 1
  /\ \A e, f \in H : e # f => entries[e].parents # entries[f].parents

\* C10 (sequential comments): after create and n add-comment runs, each on
\* the history the one before left, get prints a comments list of length n
\* whose k-th element is the author and the text of the k-th run.
C10_SequentialComments ==
  \A p \in Holders :
    Chain(History(p)) =>
      \A o \in TraversalOrders(History(p)) :
        LET v == RetrieveValue(p, o)
        IN  /\ v.comments.kind = "list"
            /\ v.comments.items =
                 [k \in 1..(Len(o) - 1) |->
                    [author |-> Urn(entries[o[k + 1]].author),
                     comment |-> entries[o[k + 1]].arg]]

\* C10 witness: a get that printed two comments from a chain of the root and
\* two add-comment entries.
C10_Witness ==
  /\ last.cmd = "get"
  /\ last.outcome = "printed"
  /\ Chain(History(last.peer))
  /\ Cardinality(History(last.peer)) = 3
  /\ Len(last.value.comments.items) = 2

\* C11 (create): what C11 asks of one step.
C11_Step ==
  \A p \in Peers, t \in Titles, d \in Descriptions :
    Create(p, t, d) =>
      /\ Len(entries') = 1
      /\ entries'[1].parents = {}
      /\ from_bytes(entries'[1].contents).ok
      /\ from_bytes(entries'[1].contents).change.deps = {}
      /\ from_bytes(entries'[1].contents).change.op.kind = "init"
      /\ RetrieveValue(p, <<1>>)' =
           [title |-> t, description |-> d, author |-> Urn(p),
            comments |-> [kind |-> "list", items |-> <<>>]]

\* C11 (create): create builds a history of one entry without parents whose
\* one change has no dependencies and sets the whole root value, and a get
\* right after it prints the title, the description, the creator's identity
\* and an empty comments list.
C11_Create == [][C11_Step]_vars

\* C11 witness: a get that printed the document of a history of one entry.
C11_Witness ==
  /\ last.cmd = "get"
  /\ last.outcome = "printed"
  /\ History(last.peer) = {1}
  /\ last.value.title \in Titles
  /\ last.value.comments = [kind |-> "list", items |-> <<>>]

\* What C12 asks of one step.
C12_Step ==
  last'.cmd = "get" =>
    /\ UNCHANGED <<entries, heads>>
    /\ (last'.outcome = "No object found") <=> (History(last'.peer) = {})
    /\ History(last'.peer) = {} => (last'.steps = <<>> /\ last'.log = <<>>)

\* C12 (unknown object): a get for an object the peer's storage does not hold
\* ends with "No object found", and only then; it evaluates no history and
\* commits nothing.
C12_UnknownObject == [][C12_Step]_vars

\* C12 witness: a get that ended "No object found" while the object exists
\* in another peer's storage.
C12_Witness ==
  /\ last.cmd = "get"
  /\ last.outcome = "No object found"
  /\ entries # <<>>

\* The Backend an evaluation ended with.
FinalBackend(steps) ==
  IF steps = <<>> THEN Backend_new ELSE steps[Len(steps)].after

RECURSIVE Ancestors(_, _)
\* The changes of b that the changes ids depend on, directly or not.
Ancestors(b, ids) ==
  LET up == ids \cup UNION {ChangeOf(b, id).deps : id \in ids}
  IN  IF up = ids THEN ids ELSE Ancestors(b, up)

\* C13 (add-comment authoring): the change of a committed add-comment run is
\* one insert of the run's {author, comment}; applied to the Backend the run
\* evaluated, it puts the new element at the index that is the length of the
\* comments list the run saw; and every change of that Backend is among the
\* change's dependencies or the changes they depend on.
C13_Authoring ==
  (last.cmd = "add-comment" /\ last.outcome = "Update complete") =>
    LET b == FinalBackend(last.steps)
        c == last.change
        n == Len(last.seen.items)
        items == Materialize(apply_changes(b, c).backend).comments.items
    IN  /\ c.op.kind = "insert"
        /\ c.op.comment = entries[Len(entries)].arg
        /\ c.deps \subseteq Ids(b)
        /\ Ancestors(b, c.deps) = Ids(b)
        /\ Len(items) = n + 1
        /\ items[n + 1] = [id |-> ChangeId(c), author |-> Urn(last.peer),
                           comment |-> entries[Len(entries)].arg]
        /\ \A k \in 1..n : items[k] = last.seen.items[k]

\* C13 witness: a committed add-comment run that saw one comment and an
\* evaluation of two entries.
C13_Witness ==
  /\ last.cmd = "add-comment"
  /\ last.outcome = "Update complete"
  /\ Len(last.seen.items) = 1
  /\ Len(last.steps) = 2

\* The entries this program wrote.
Own == {e \in DOMAIN entries : entries[e].message # "foreign"}

VisitedOrder(steps) == [i \in DOMAIN steps |-> steps[i].entry]

RowsOf(kind) == {i \in DOMAIN last.rows : last.rows[i].kind = kind}

\* C14 (list is best-effort per object): a list prints exactly one row for
\* every object storage returned, in storage's order and carrying that
\* object's id: the title row of an object that evaluates and projects into
\* an Issue, the failure row of an object that does not; a failure row never
\* keeps the rows after it from being printed.
C14_ListBestEffort ==
  last.cmd = "list" =>
    LET ids == Ascending(Objects(last.peer))
    IN  /\ Len(last.rows) = Len(ids)
        /\ \A i \in DOMAIN ids :
             /\ last.rows[i].id = ids[i]
             /\ last.rows[i].kind \in {"title", "failed to deserialize"}
             /\ last.rows[i].kind = "title" =>
                  /\ last.rows[i].text = entries[ids[i]].arg
                  /\ \E o \in TraversalOrders(ObjectHistory(last.peer, ids[i])) :
                       IsIssue(RetrieveValue(last.peer, o))
             /\ last.rows[i].kind = "failed to deserialize" =>
                  \E o \in TraversalOrders(ObjectHistory(last.peer, ids[i])) :
                    ~IsIssue(RetrieveValue(last.peer, o))

\* C14 witness: a list whose first row is a failure row and whose second row
\* is a title row.
C14_Witness ==
  /\ last.cmd = "list"
  /\ Len(last.rows) >= 2
  /\ last.rows[1].kind = "failed to deserialize"
  /\ last.rows[2].kind = "title"

\* The entries of peer p's object id whose bytes do not decode.
Corrupted(p, id) ==
  {e \in ObjectHistory(p, id) : ~from_bytes(entries[e].contents).ok}

\* The objects of peer p all of whose entries this program wrote.
Intact(p) == {id \in Objects(p) : ObjectHistory(p, id) \subseteq Own}

\* A list over three objects, exactly one of which has corrupted entries,
\* the other two written by this program alone.
OneOfThreeCorrupted ==
  /\ last.cmd = "list"
  /\ Cardinality(Objects(last.peer)) = 3
  /\ Cardinality({id \in Objects(last.peer) : Corrupted(last.peer, id) # {}}) = 1
  /\ Cardinality(Intact(last.peer)) = 2

\* C15 as stated: a list over three objects, exactly one of which has a
\* corrupted entry, prints two title rows and a failure row for the object
\* with the corrupted entry, whichever of its entries is the corrupted one.
C15_ListCorrupted ==
  OneOfThreeCorrupted =>
    /\ Len(last.rows) = 3
    /\ Cardinality(RowsOf("title")) = 2
    /\ \A i \in RowsOf("failed to deserialize") :
         Corrupted(last.peer, last.rows[i].id) # {}
    /\ Cardinality(RowsOf("failed to deserialize")) = 1

\* C15 amended: a list over three objects, exactly one of which has a
\* corrupted entry, prints one row for every object and does not abort; the
\* two other objects get their title rows.  The evaluation skips the
\* corrupted entry, so the object that has it gets the row its other entries
\* give: a failure row when the corrupted entry is the root entry, which
\* carries the title, and its title row when the corrupted entry is a later
\* one and this program wrote the others.
C15_ListSkipsCorrupted ==
  OneOfThreeCorrupted =>
    /\ Len(last.rows) = 3
    /\ \A i \in DOMAIN last.rows :
         LET id == last.rows[i].id
             bad == Corrupted(last.peer, id)
         IN  /\ id \in Intact(last.peer) => last.rows[i].kind = "title"
             /\ id \in bad => last.rows[i].kind = "failed to deserialize"
             /\ (bad # {} /\ id \notin bad
                   /\ ObjectHistory(last.peer, id) \ bad \subseteq Own) =>
                  /\ last.rows[i].kind = "title"
                  /\ last.rows[i].text = entries[id].arg

\* C15 witness: a list over three objects that printed three title rows,
\* one of them for an object with a corrupted entry after its root entry.
C15_Witness ==
  /\ OneOfThreeCorrupted
  /\ Cardinality(RowsOf("title")) = 3
  /\ \E id \in Objects(last.peer) :
       Corrupted(last.peer, id) # {} /\ id \notin Corrupted(last.peer, id)

\* The entries of history H that are reachable from entry e.
Below(e) == Reach({e})

\* The declarations of a change graph, by kind.
Declared(g, kind) == {i \in DOMAIN g : g[i].kind = kind}

\* C16 (change-graph completeness): for a history of N entries and E parent
\* links, the change graph declares every entry as a node once (N nodes) and
\* every parent link as an edge from the child to the parent once (E edges),
\* nothing twice, and the same declarations whichever head the walk starts
\* from.
C16_GraphComplete ==
  \A p \in Holders :
    \A start \in StartOrders(Tips(History(p))) :
      LET g == dotviz(start)
      IN  /\ {g[i].id : i \in Declared(g, "node")} = History(p)
          /\ Cardinality(Declared(g, "node")) = Cardinality(History(p))
          /\ {<<g[i].id, g[i].to>> : i \in Declared(g, "edge")} =
               {<<e, f>> \in History(p) \X History(p) : f \in entries[e].parents}
          /\ Cardinality(Declared(g, "edge")) =
               Cardinality({<<e, f>> \in History(p) \X History(p) :
                              f \in entries[e].parents})
          /\ Cardinality(Range(g)) = Len(g)
          /\ Range(g) = Range(dotviz(Ascending(Tips(History(p)))))

\* C16 witness: a printed change graph of a history with two heads that
\* both reach the same entry.
C16_Witness ==
  /\ last.cmd = "changegraph"
  /\ last.outcome = "printed"
  /\ \E e, f \in Tips(History(last.peer)) :
       e # f /\ Below(e) \cap Below(f) # {}
  /\ Cardinality(Declared(last.rows, "node")) = Cardinality(History(last.peer))

\* C17 (traversal termination): on every entry DAG, the evaluation walk ends
\* having visited every entry once and no entry twice, the visitor answering
\* Continue at every entry, and the change-graph walk ends having declared
\* no entry twice.
C17_WalkEnds ==
  \A p \in Holders :
    /\ \A o \in TraversalOrders(History(p)) :
         LET st == StepsOf(p, o)
         IN  /\ Len(st) = Cardinality(History(p))
             /\ \A i, j \in DOMAIN st : st[i].entry = st[j].entry => i = j
             /\ \A i \in DOMAIN st :
                  Visit([Seed EXCEPT !.backend = st[i].before],
                        st[i].entry).flow = "Continue"
    /\ \A start \in StartOrders(Tips(History(p))) :
         LET g == dotviz(start)
         IN  \A i, j \in Declared(g, "node") : g[i].id = g[j].id => i = j

\* C17 witness: a get that visited the three entries of a history whose two
\* roots are merged by the third entry, the first entry undecodable.
C17_Witness ==
  /\ last.cmd = "get"
  /\ Len(last.steps) = 3
  /\ last.steps[1].status = "DecodeError"
  /\ entries[1].parents = {}
  /\ entries[2].parents = {}
  /\ entries[3].parents = {1, 2}

\* What C19 asks of one step.
C19_Step ==
  last'.cmd \in {"get", "list", "changegraph", "automerge-doc"} =>
    UNCHANGED <<entries, heads>>

\* C19 (read commands): a get, list, changegraph or automerge-doc step leaves
\* the entries and the heads of every object as they were, whether it prints
\* its result, finds no object or meets an entry that does not decode or
\* apply.
C19_ReadsOnly == [][C19_Step]_vars

\* C19 witness: an automerge-doc that saved the document of an object with
\* an undecodable entry, in a store that holds another object.
C19_Witness ==
  /\ last.cmd = "automerge-doc"
  /\ last.outcome = "saved"
  /\ \E i \in DOMAIN last.steps : last.steps[i].status = "DecodeError"
  /\ Cardinality(Objects(last.peer)) >= 2

====
